---- MODULE Spec2Model ----
(***************************************************************************)
(* Model of server.js: the ping scheduler (startSchedulerIfConfigured),    *)
(* the history store (appendPingSample) and the stats import handler       *)
(* (POST /api/import), with the files they share modelled as variables.    *)
(*                                                                         *)
(* Every `await` of the source is a point where other callbacks may run,   *)
(* so each handler is cut into one action per stretch of code between two  *)
(* awaits.  fsp.writeFile opens the file with flag 'w' (which truncates    *)
(* it) and then writes the data: the two are separate steps here, and a    *)
(* file between them holds no parsable JSON.                               *)
(***************************************************************************)
EXTENDS Integers, Sequences, FiniteSets, Bags, TLC

(***************************************************************************)
(* Bounds of the model.                                                    *)
(***************************************************************************)
\* The history cap.  The source's value is 15000 (server.js:168-169); the
\* model runs the same code with a small cap so that the truncation happens.
CAP == 2

\* The clock (new Date()) reads 0, 1, .. MaxTime and then stays at MaxTime.
MaxTime == 1

\* Timer callbacks in flight at once; setInterval itself sets no limit.
MaxInFlight == 2

(***************************************************************************)
(* Values.                                                                 *)
(***************************************************************************)
\* config.json as ensureDataFiles or the operator wrote it.
PingIntervals == {-1, 0, 1}

Configs ==
    {[readable |-> FALSE, pingIntervalSec |-> 0]}
        \cup {[readable |-> TRUE, pingIntervalSec |-> p] : p \in PingIntervals}

\* What status() resolves to.
ProbeResults == {[players |-> [online |-> 2, max |-> 20]]}

NoSample == [none |-> TRUE]

\* ping-history.json: parsable with its samples, or not parsable (truncated
\* by an open for writing, partly written, or two writes mixed).
Parsable(samples) == [ok |-> TRUE, samples |-> samples]

Unparsable == [ok |-> FALSE, samples |-> <<>>]

VARIABLES
    cfg,        \* config.json
    sched,      \* "Boot", "Idle", "Running", "Dead" (an unhandled rejection)
    intervalMs, \* the interval handed to setInterval, 0 when none is set
    warned,     \* console.warn('Scheduler not started:', e) was called
    now,        \* the clock: the time new Date() returns next
    ticks,      \* the timer callbacks in flight: a bag of their local states
    hist,       \* ping-history.json
    applied,    \* history: while serial, the samples whose write completed
    serial,     \* history: no append has started while another was running
    statsFile,  \* stats.json
    imports,    \* the POST /api/import requests, by request
    got         \* the last response of a GET /api/... request

schedVars == <<cfg, sched, intervalMs, warned, ticks, hist, applied, serial>>

impVars == <<statsFile, imports, got>>

vars == <<schedVars, now, impVars>>

(***************************************************************************)
(* appendPingSample (server.js:162-175)                                    *)
(***************************************************************************)
LastN(s, n) ==
    IF Len(s) <= n THEN s ELSE SubSeq(s, Len(s) - n + 1, Len(s))

\* A bug: no truncation at all.
TruncateNever(samples) == samples

\* A bug: slice(0, 15000) keeps the oldest samples.
TruncateKeepOldest(samples) ==
    IF Len(samples) > CAP THEN SubSeq(samples, 1, CAP) ELSE samples

\* if (data.samples.length > 15000) data.samples = data.samples.slice(-15000)
Truncate(samples) ==
    IF Len(samples) > CAP THEN LastN(samples, CAP) ELSE samples

\* data.samples.push(sample), then the truncation.
Pushed(samples, sample) == Truncate(Append(samples, sample))

\* A bug: appendPingSample without its try/catch: the error reaches the
\* caller, the tick's try block or its catch block.
AppendErrorRethrown(branch) ==
    IF branch = "try" THEN "caught_by_tick" ELSE "unhandled"

\* A bug: the error of an append called from the tick's try block is logged
\* and thrown again, so the tick's catch block runs.
AppendErrorLoggedAndThrown(branch) ==
    IF branch = "try" THEN "caught_by_tick" ELSE "swallowed"

\* What becomes of an error inside appendPingSample: its catch logs it and
\* the function returns normally.
AppendError(branch) == "swallowed"

InAppend(t) == t.pc \in {"read", "write", "writing"}

InFlight == BagToSet(ticks)

\* The bag of ticks with one tick in state t taken out, and u put in.
Without(t) == ticks (-) SetToBag({t})

Moved(t, u) == Without(t) (+) SetToBag({u})

(***************************************************************************)
(* startSchedulerIfConfigured (server.js:177-200)                          *)
(***************************************************************************)
\* A bug: only a negative interval disables the scheduler.
DisabledNegativeOnly(pingIntervalSec) == pingIntervalSec < 0

\* if (!cfg.pingIntervalSec || cfg.pingIntervalSec <= 0) return;
Disabled(pingIntervalSec) == pingIntervalSec = 0 \/ pingIntervalSec <= 0

\* The body of startSchedulerIfConfigured up to setInterval.
StartScheduler ==
    /\ sched = "Boot"
    /\ sched' = IF cfg.readable /\ ~Disabled(cfg.pingIntervalSec)
                THEN "Running" ELSE "Idle"
    /\ intervalMs' = IF cfg.readable /\ ~Disabled(cfg.pingIntervalSec)
                     THEN cfg.pingIntervalSec * 1000 ELSE 0
    /\ warned' = ~cfg.readable
    /\ UNCHANGED <<cfg, now, ticks, hist, applied, serial>>
    /\ UNCHANGED impVars

\* new Date() is read: the reading is now, and the next reading is later,
\* until the clock of the model has reached MaxTime.
ReadClock == now' = IF now < MaxTime THEN now + 1 ELSE now

\* { at, online: true, playersOnline: result?.players?.online ?? 0, ... }
OnlineSample(result, t) ==
    [at |-> t, online |-> TRUE,
     playersOnline |->
        IF "players" \in DOMAIN result THEN result.players.online ELSE 0,
     playersMax |->
        IF "players" \in DOMAIN result THEN result.players.max ELSE 0]

\* { at: new Date().toISOString(), online: false }
OfflineSample(t) == [at |-> t, online |-> FALSE]

\* A tick that has called appendPingSample(sample) and awaits its readFile.
Reading(branch, sample) ==
    [pc |-> "read", branch |-> branch, sample |-> sample, data |-> <<>>,
     late |-> FALSE, nth |-> 0]

\* The tick in state t calls appendPingSample(sample): up to its readFile.
\* The history of the serial appends ends with the first overlap.
EnterAppend(t, branch, sample) ==
    /\ ticks' = Moved(t, Reading(branch, sample))
    /\ serial' = (serial /\ \A u \in BagToSet(Without(t)) : ~InAppend(u))
    /\ applied' = IF serial' THEN applied ELSE <<>>

\* History, kept by a tick while it awaits its probe: when the timer fired,
\* an earlier append had failed in its write (the file is not parsable and no
\* writer is left that has it open).
AppendHasFailed == ~hist.ok /\ \A u \in InFlight : u.pc # "writing"

\* setInterval's timer fires: the callback starts and awaits status().  The
\* timer does not wait for the callbacks it started before.  While it awaits
\* its probe a tick also keeps, as history, the number of callbacks that
\* were in flight when it started (nth).
TimerFire ==
    /\ sched = "Running"
    /\ BagCardinality(ticks) < MaxInFlight
    /\ ticks' = ticks (+) SetToBag({[pc |-> "probe", branch |-> "none",
                                     sample |-> NoSample, data |-> <<>>,
                                     late |-> AppendHasFailed,
                                     nth |-> BagCardinality(ticks)]})
    /\ UNCHANGED <<cfg, sched, intervalMs, warned, now, hist, applied,
                   serial>>
    /\ UNCHANGED impVars

\* status() resolves: server.js:186-192 up to the await inside the append.
ProbeOk(t, result) ==
    /\ sched = "Running"
    /\ t.pc = "probe"
    /\ ReadClock
    /\ EnterAppend(t, "try", OnlineSample(result, now))
    /\ UNCHANGED <<cfg, sched, intervalMs, warned, hist>>
    /\ UNCHANGED impVars

\* status() rejects (timeout after 5000 ms, connection or protocol error):
\* server.js:193-194 up to the await inside the append.
ProbeFail(t) ==
    /\ sched = "Running"
    /\ t.pc = "probe"
    /\ ReadClock
    /\ EnterAppend(t, "catch", OfflineSample(now))
    /\ UNCHANGED <<cfg, sched, intervalMs, warned, hist>>
    /\ UNCHANGED impVars

\* readFile resolved and JSON.parse returned: push, truncate, and up to the
\* await of writeFile.
ReadOk(t) ==
    /\ sched = "Running"
    /\ t.pc = "read"
    /\ hist.ok
    /\ ticks' = Moved(t, [t EXCEPT !.pc = "write",
                                   !.data = Pushed(hist.samples, t.sample)])
    /\ UNCHANGED <<cfg, sched, intervalMs, warned, now, hist, applied,
                   serial>>
    /\ UNCHANGED impVars

\* An error inside appendPingSample in the tick in state t, by what becomes
\* of it: logged and the tick over, or thrown to the tick's try block (whose
\* catch appends an offline sample), or thrown out of the tick's catch block
\* (an unhandled rejection, which ends the process).
AppendFailed(t) ==
    /\ sched' = IF AppendError(t.branch) = "unhandled" THEN "Dead" ELSE sched
    /\ IF AppendError(t.branch) = "caught_by_tick"
       THEN ReadClock /\ EnterAppend(t, "catch", OfflineSample(now))
       ELSE ticks' = Without(t) /\ UNCHANGED <<now, applied, serial>>
    /\ UNCHANGED <<cfg, intervalMs, warned, hist>>

\* readFile rejects, or JSON.parse throws on a file that is not parsable.
ReadFail(t) ==
    /\ sched = "Running"
    /\ t.pc = "read"
    /\ AppendFailed(t)
    /\ UNCHANGED impVars

\* writeFile has opened the file for writing, which truncates it.
WriteOpen(t) ==
    /\ sched = "Running"
    /\ t.pc = "write"
    /\ ticks' = Moved(t, [t EXCEPT !.pc = "writing"])
    /\ hist' = Unparsable
    /\ UNCHANGED <<cfg, sched, intervalMs, warned, now, applied, serial>>
    /\ UNCHANGED impVars

\* What the file holds once `data` is written from offset 0: a longer text
\* that another writer put there since this writer's open keeps its tail.
Written(file, data) ==
    IF file.ok /\ Len(file.samples) > Len(data)
    THEN Unparsable ELSE Parsable(data)

\* writeFile resolves: the append returns and the tick is over.
WriteDone(t) ==
    /\ sched = "Running"
    /\ t.pc = "writing"
    /\ hist' = Written(hist, t.data)
    /\ applied' = IF serial
                  THEN LastN(Append(applied, t.sample), CAP + 1) ELSE <<>>
    /\ ticks' = Without(t)
    /\ UNCHANGED <<cfg, sched, intervalMs, warned, now, serial>>
    /\ UNCHANGED impVars

\* writeFile rejects, at its open (the file is as it was) or at its write (the
\* file stays as the open left it).
WriteFail(t) ==
    /\ sched = "Running"
    /\ t.pc \in {"write", "writing"}
    /\ AppendFailed(t)
    /\ UNCHANGED impVars

(***************************************************************************)
(* JSON values, as JSON.parse returns them and as the handler reads them.  *)
(***************************************************************************)
Undefined == [t |-> "undefined"]

JNull == [t |-> "null"]

JNum(n) == [t |-> "num", num |-> n]

\* A string, as the sequence of its characters.
JStr(chars) == [t |-> "str", str |-> chars]

JArr(items) == [t |-> "arr", arr |-> items]

\* An object, as the mapping of its own enumerable properties.
JObj(props) == [t |-> "obj", obj |-> props]

NoProps == <<>>

\* !v is false
Truthy(v) ==
    CASE v.t \in {"undefined", "null"} -> FALSE
      [] v.t = "num" -> v.num # 0
      [] v.t = "str" -> v.str # <<>>
      [] OTHER -> TRUE

\* typeof v === 'object'
TypeofObject(v) == v.t \in {"null", "arr", "obj"}

\* The own enumerable properties of v, which { ...v } copies and
\* Object.entries(v) lists: those of an object, the indices of an array or of
\* a string, none of null, undefined or a number.
OwnProps(v) ==
    CASE v.t = "obj" -> v.obj
      [] v.t = "arr" ->
            [k \in {ToString(i - 1) : i \in DOMAIN v.arr} |->
                v.arr[CHOOSE i \in DOMAIN v.arr : ToString(i - 1) = k]]
      [] v.t = "str" ->
            [k \in {ToString(i - 1) : i \in DOMAIN v.str} |->
                JStr(<<v.str[CHOOSE i \in DOMAIN v.str : ToString(i - 1) = k]>>)]
      [] OTHER -> NoProps

\* v[key] of a parsed value
Get(v, key) ==
    IF key \in DOMAIN OwnProps(v) THEN OwnProps(v)[key] ELSE Undefined

(***************************************************************************)
(* The payloads of the model.                                              *)
(***************************************************************************)
\* The usernames of one batch.
MaxBatch == 1

Usernames == {"alice", "bob", "__proto__"}

\* What a batch gives for a username: a record, or null.
StatsValues ==
    {JObj([kills |-> JNum(5), deaths |-> JNum(2),
           sessions |-> JArr(<<JNum(1)>>)]),
     JObj([kills |-> JNum(7)]),
     JObj([sessions |-> JArr(<<JNum(1), JNum(2)>>)]),
     JNull}

PlayerMaps ==
    UNION {[S -> StatsValues] :
              S \in {T \in SUBSET Usernames : Cardinality(T) <= MaxBatch}}

\* What the payload has as `players`.
PlayersValues ==
    {JObj(m) : m \in PlayerMaps}
        \cup {JArr(<<>>), JNull, JNum(0), JNum(7), JStr(<<>>), JStr(<<"x">>)}

JsonRoots ==
    {JObj([players |-> p]) : p \in PlayersValues}
        \cup {JObj([notplayers |-> JObj(NoProps)])}
        \cup {JNull, JNum(7), JStr(<<"x">>), JArr(<<>>)}

\* A request: without data, with a text that is not JSON, or with the text of
\* a JSON value (an uploaded file, a JSON body or a string body).
Payloads ==
    {[kind |-> "none"], [kind |-> "text"]}
        \cup {[kind |-> "json", value |-> j] : j \in JsonRoots}

Requests == {"r1", "r2"}

(***************************************************************************)
(* POST /api/import (server.js:121-160)                                    *)
(***************************************************************************)
\* stats.json: parsable with its players and updatedAt, or not parsable.
ParsableStats(players, updatedAt) ==
    [ok |-> TRUE, players |-> players, updatedAt |-> updatedAt]

UnparsableStats == [ok |-> FALSE, players |-> NoProps, updatedAt |-> 0]

\* JSON.parse(currentRaw) of a parsable stats.json
Parsed(file) == [players |-> file.players, updatedAt |-> file.updatedAt]

NoAggregate == [players |-> NoProps, updatedAt |-> 0]

NoResponse == [status |-> 0]

IdleImport ==
    [pc |-> "idle", entries |-> NoProps, current |-> NoAggregate,
     merged |-> NoAggregate, res |-> NoResponse, repeat |-> FALSE,
     first |-> NoProps]

\* The request is over with response res.
Responded(res) == [IdleImport EXCEPT !.pc = "done", !.res = res]

\* server.js:142: the schema check, TRUE when the payload is let through.
SchemaOk(incoming) ==
    ~(\/ ~Truthy(incoming)
      \/ ~TypeofObject(incoming)
      \/ ~Truthy(Get(incoming, "players"))
      \/ ~TypeofObject(Get(incoming, "players")))

\* A bug: a deep merge, which appends b's sequence to a's where both have one.
OverlayConcat(a, b) ==
    [f \in DOMAIN a \cup DOMAIN b |->
        IF f \in DOMAIN b
        THEN (IF f \in DOMAIN a /\ a[f].t = "arr" /\ b[f].t = "arr"
              THEN JArr(a[f].arr \o b[f].arr) ELSE b[f])
        ELSE a[f]]

\* a \cup b as { ...a, ...b } builds it: b's value where both have one.
Overlay(a, b) ==
    [f \in DOMAIN a \cup DOMAIN b |-> IF f \in DOMAIN b THEN b[f] ELSE a[f]]

\* (v || {})
OrEmptyObject(v) == IF Truthy(v) THEN v ELSE JObj(NoProps)

\* { ...(merged.players[username] || {}), ...stats }
MergeRecord(existing, stats) ==
    JObj(Overlay(OwnProps(OrEmptyObject(existing)), OwnProps(stats)))

\* merged.players[username], read.  merged.players is an ordinary object: a
\* name that is no own property is looked up in its prototype, and __proto__
\* reads the prototype itself (Object.prototype, which has no enumerable
\* property, until an assignment to __proto__ has replaced it).
Lookup(obj, username) ==
    IF username \in DOMAIN obj.own THEN obj.own[username]
    ELSE IF username = "__proto__"
         THEN (IF obj.proto = Undefined THEN JObj(NoProps) ELSE obj.proto)
         ELSE IF obj.proto = Undefined THEN Undefined
              ELSE Get(obj.proto, username)

\* merged.players[username] = record.  An assignment to __proto__ calls the
\* setter that Object.prototype defines: it replaces the prototype of
\* merged.players and creates no own property.
Assigned(obj, username, record) ==
    IF username = "__proto__"
    THEN [obj EXCEPT !.proto = record]
    ELSE [obj EXCEPT !.own =
            [u \in DOMAIN obj.own \cup {username} |->
                IF u = username THEN record ELSE obj.own[u]]]

\* The loop of server.js:151-153 over the entries left in `todo`.
RECURSIVE MergeEntries(_, _, _)
MergeEntries(obj, entries, todo) ==
    IF todo = {} THEN obj
    ELSE LET username == CHOOSE u \in todo : TRUE
         IN MergeEntries(
                Assigned(obj, username,
                         MergeRecord(Lookup(obj, username), entries[username])),
                entries, todo \ {username})

\* A bug: the merge starts from an empty players object.
CopyNoPlayers(current) == NoProps

\* { ...(current.players || {}) }
CopyPlayers(current) == current.players

\* server.js:150-153.  JSON.stringify writes the own properties only.
Merged(current, entries, updatedAt) ==
    [players |->
        MergeEntries([own |-> CopyPlayers(current), proto |-> Undefined],
                     entries, DOMAIN entries).own,
     updatedAt |-> updatedAt]

\* The length of the text of a players object, counted in its keys.
TextLen(players) ==
    LET keys == UNION {DOMAIN OwnProps(players[u]) : u \in DOMAIN players}
    IN Cardinality(DOMAIN players)
          + Cardinality({uf \in (DOMAIN players) \X keys :
                            uf[2] \in DOMAIN OwnProps(players[uf[1]])})

\* What stats.json holds once `merged` is written from offset 0: a longer
\* text that another writer put there since this writer's open keeps its tail.
StatsWritten(file, merged) ==
    IF file.ok /\ TextLen(file.players) > TextLen(merged.players)
    THEN UnparsableStats
    ELSE ParsableStats(merged.players, merged.updatedAt)

\* The request with the entries of a payload that passed the checks, awaiting
\* readFile.  History: `repeat` says that the request before it on this
\* connection imported the same entries and that stats.json still holds what
\* that import wrote, and `first` is what it wrote.
Accepted(old, entries) ==
    LET repeat == /\ old.pc = "done"
                  /\ old.res.status = 200
                  /\ old.entries = entries
                  /\ statsFile.ok
                  /\ statsFile.players = old.merged.players
    IN [IdleImport EXCEPT !.pc = "read", !.entries = entries,
                          !.repeat = repeat,
                          !.first = IF repeat THEN old.merged.players
                                    ELSE NoProps]

\* server.js:122-147: the content, JSON.parse, the schema check, and up to
\* the await of readFile.
Received(old, payload) ==
    IF payload.kind = "none"
    THEN Responded([status |-> 400, error |-> "No data provided"])
    ELSE IF payload.kind = "text"
    THEN Responded([status |-> 400, error |-> "Invalid JSON"])
    ELSE IF ~SchemaOk(payload.value)
    THEN Responded([status |-> 400, error |-> "Invalid schema"])
    ELSE Accepted(old, OwnProps(Get(payload.value, "players")))

ImportReceive(r, payload) ==
    /\ imports[r].pc \in {"idle", "done"}
    /\ imports' = [imports EXCEPT ![r] = Received(imports[r], payload)]
    /\ UNCHANGED <<schedVars, now, statsFile, got>>

\* readFile resolved and JSON.parse returned: server.js:148-155 up to the
\* await of writeFile.
ImportRead(r) ==
    /\ imports[r].pc = "read"
    /\ statsFile.ok
    /\ ReadClock
    /\ imports' = [imports EXCEPT
          ![r].pc = "write",
          ![r].current = Parsed(statsFile),
          ![r].merged = Merged(Parsed(statsFile), imports[r].entries, now)]
    /\ UNCHANGED <<schedVars, statsFile, got>>

\* An error after the checks: the outer catch answers 500.
ImportFailed(r) ==
    imports' = [imports EXCEPT
        ![r].pc = "done",
        ![r].res = [status |-> 500, error |-> "Failed to import stats"]]

\* readFile rejects, or JSON.parse throws on a file that is not parsable.
ImportReadFail(r) ==
    /\ imports[r].pc = "read"
    /\ ImportFailed(r)
    /\ UNCHANGED <<schedVars, now, statsFile, got>>

\* writeFile has opened stats.json for writing, which truncates it.
ImportWriteOpen(r) ==
    /\ imports[r].pc = "write"
    /\ imports' = [imports EXCEPT ![r].pc = "writing"]
    /\ statsFile' = UnparsableStats
    /\ UNCHANGED <<schedVars, now, got>>

\* writeFile resolves: server.js:156.
ImportWriteDone(r) ==
    /\ imports[r].pc = "writing"
    /\ statsFile' = StatsWritten(statsFile, imports[r].merged)
    /\ imports' = [imports EXCEPT
          ![r].pc = "done",
          ![r].res = [status |-> 200, ok |-> TRUE,
                      updatedAt |-> imports[r].merged.updatedAt,
                      totalPlayers |->
                          Cardinality(DOMAIN imports[r].merged.players)]]
    /\ UNCHANGED <<schedVars, now, got>>

\* writeFile rejects, at its open or at its write.
ImportWriteFail(r) ==
    /\ imports[r].pc \in {"write", "writing"}
    /\ ImportFailed(r)
    /\ UNCHANGED <<schedVars, now, statsFile, got>>

(***************************************************************************)
(* The GET endpoints (server.js:62-118).  Each handler awaits one          *)
(* operation and answers when it is over; it holds no state before that,   *)
(* so the request is one step, taken when the operation ends.              *)
(***************************************************************************)
\* res.json(body)
Ok(endpoint, body) == [endpoint |-> endpoint, status |-> 200, body |-> body]

\* res.status(500).json({ error, details: String(err) }): details starts with
\* the name of the error, SyntaxError when JSON.parse threw and Error when
\* readFile rejected.
Failed(endpoint, error, details) ==
    [endpoint |-> endpoint, status |-> 500, error |-> error,
     details |-> details]

\* What a handler makes of a file: its parsed content when readFile resolves
\* and the text is JSON, a 500 when JSON.parse throws.
Served(endpoint, ok, body, error) ==
    IF ok THEN Ok(endpoint, body) ELSE Failed(endpoint, error, "SyntaxError")

\* GET /api/config
GetConfig ==
    /\ \/ got' = Served("config", cfg.readable,
                        [pingIntervalSec |-> cfg.pingIntervalSec],
                        "Failed to read config")
       \/ got' = Failed("config", "Failed to read config", "Error")
    /\ UNCHANGED <<schedVars, now, statsFile, imports>>

\* A bug: the failure of the probe is passed on as an error response.
PingFailedRaised(err) ==
    [endpoint |-> "ping", status |-> 500, error |-> err]

\* server.js:95: the failure of the probe is a result, with status 200.
PingFailed(err) ==
    [endpoint |-> "ping", status |-> 200, online |-> FALSE, error |-> err]

\* server.js:78-92, without the fields that only describe the server (host,
\* port, list, version, motd, favicon, latencyMs).
PingOnline(result, t) ==
    [endpoint |-> "ping", status |-> 200, online |-> TRUE,
     players |->
        [online |-> IF "players" \in DOMAIN result
                    THEN result.players.online ELSE 0,
         max |-> IF "players" \in DOMAIN result
                 THEN result.players.max ELSE 0],
     obtainedAt |-> t]

\* GET /api/ping, status() resolved.
GetPingOk ==
    /\ \E result \in ProbeResults : got' = PingOnline(result, now)
    /\ ReadClock
    /\ UNCHANGED <<schedVars, statsFile, imports>>

\* GET /api/ping, status() rejected.
GetPingFail ==
    /\ got' = PingFailed("Error")
    /\ UNCHANGED <<schedVars, now, statsFile, imports>>

\* GET /api/ping-history
GetPingHistory ==
    /\ \/ got' = Served("ping-history", hist.ok, [samples |-> hist.samples],
                        "Failed to read ping history")
       \/ got' = Failed("ping-history", "Failed to read ping history", "Error")
    /\ UNCHANGED <<schedVars, now, statsFile, imports>>

\* GET /api/stats
GetStats ==
    /\ \/ got' = Served("stats", statsFile.ok, Parsed(statsFile),
                        "Failed to read stats")
       \/ got' = Failed("stats", "Failed to read stats", "Error")
    /\ UNCHANGED <<schedVars, now, statsFile, imports>>

(***************************************************************************)
(* The scheduler and the history store.                                    *)
(***************************************************************************)
\* The state once ensureDataFiles has run, the clock reading start.
InitAt(start) ==
    /\ cfg \in Configs
    /\ sched = "Boot"
    /\ intervalMs = 0
    /\ warned = FALSE
    /\ now = start
    /\ ticks = EmptyBag
    /\ hist = Parsable(<<>>)
    /\ applied = <<>>
    /\ serial = TRUE
    /\ statsFile = ParsableStats(NoProps, 0)
    /\ imports = [r \in Requests |-> IdleImport]
    /\ got = NoResponse

Init == InitAt(0)

ProbeDone == \E t \in InFlight : \E result \in ProbeResults : ProbeOk(t, result)

ProbeFailed == \E t \in InFlight : ProbeFail(t)

ReadDone == \E t \in InFlight : ReadOk(t)

ReadFailed == \E t \in InFlight : ReadFail(t)

WriteOpened == \E t \in InFlight : WriteOpen(t)

WriteCompleted == \E t \in InFlight : WriteDone(t)

WriteFailed == \E t \in InFlight : WriteFail(t)

TickStep ==
    \/ ProbeDone
    \/ ProbeFailed
    \/ ReadDone
    \/ ReadFailed
    \/ WriteOpened
    \/ WriteCompleted
    \/ WriteFailed

Next ==
    \/ StartScheduler
    \/ TimerFire
    \/ TickStep

Spec == Init /\ [][Next]_vars

\* No guard of the scheduler or of appendPingSample reads a time stamp, so
\* which steps are taken, and how many samples the log holds, do not depend
\* on the clock.  SpecLate is the scheduler started with the clock at MaxTime,
\* where every reading is the same: the samples differ by their online flag
\* only, which leaves room for more ticks in flight and a longer log.
InitLate == InitAt(MaxTime)

SpecLate == InitLate /\ [][Next]_vars

\* The timer fires when it is due, and a pending probe or file operation
\* ends: status() has a 5000 ms timeout and the file operations return.
FairSpec == SpecLate /\ WF_vars(TimerFire) /\ WF_vars(TickStep)

(***************************************************************************)
(* Slow probes: every status() takes longer than MaxInFlight intervals and *)
(* then resolves, and the file operations succeed.  The timer fires        *)
(* MaxInFlight times before the first probe resolves (the clock, read by   *)
(* a tick when its probe has ended, still reads 0), so that nth numbers    *)
(* the ticks in the order they started; the probe of tick nth finds        *)
(* nth + 1 players online.  A client reads the log at any time.            *)
(***************************************************************************)
TickResult(nth) == [players |-> [online |-> nth + 1, max |-> 20]]

NextSlowProbes ==
    \/ StartScheduler
    \/ now = 0 /\ TimerFire
    \/ \E t \in InFlight :
          /\ now > 0 \/ BagCardinality(ticks) = MaxInFlight
          /\ ProbeOk(t, TickResult(t.nth))
    \/ ReadDone
    \/ WriteOpened
    \/ WriteCompleted
    \/ GetPingHistory

SpecSlowProbes == Init /\ [][NextSlowProbes]_vars

(***************************************************************************)
(* A game server that answers every probe: status() always resolves, while *)
(* the file operations of the appends succeed or fail.                     *)
(***************************************************************************)
NextOnline ==
    \/ StartScheduler
    \/ TimerFire
    \/ ProbeDone
    \/ ReadDone
    \/ ReadFailed
    \/ WriteOpened
    \/ WriteCompleted
    \/ WriteFailed

SpecOnline == InitLate /\ [][NextOnline]_vars

(***************************************************************************)
(* The import requests, one at a time, with config.json as                 *)
(* ensureDataFiles writes it (pingIntervalSec 0: no scheduler).            *)
(***************************************************************************)
InitImport == Init /\ cfg = [readable |-> TRUE, pingIntervalSec |-> 0]

NextImport ==
    \/ \E payload \in Payloads : ImportReceive("r1", payload)
    \/ ImportRead("r1")
    \/ ImportReadFail("r1")
    \/ ImportWriteOpen("r1")
    \/ ImportWriteDone("r1")
    \/ ImportWriteFail("r1")

SpecImport == InitImport /\ [][NextImport]_vars

(***************************************************************************)
(* Two import requests at once, one on each connection, each with a batch  *)
(* of records for ordinary usernames.  Express starts the handler of a     *)
(* request while the handler of another awaits its file operation.         *)
(***************************************************************************)
ConcurrentPayloads ==
    {[kind |-> "json", value |-> JObj([players |-> JObj(m)])] :
        m \in {x \in PlayerMaps :
                  /\ DOMAIN x # {}
                  /\ "__proto__" \notin DOMAIN x
                  /\ \A u \in DOMAIN x : x[u].t = "obj"}}

NextConcurrent ==
    \E r \in Requests :
        \/ /\ imports[r].pc = "idle"
           /\ \E payload \in ConcurrentPayloads : ImportReceive(r, payload)
        \/ ImportRead(r)
        \/ ImportReadFail(r)
        \/ ImportWriteOpen(r)
        \/ ImportWriteDone(r)
        \/ ImportWriteFail(r)

SpecConcurrent == InitImport /\ [][NextConcurrent]_vars

(***************************************************************************)
(* GET requests at any point of one import request.                        *)
(***************************************************************************)
NextGet ==
    \/ /\ imports["r1"].pc = "idle"
       /\ \E payload \in ConcurrentPayloads : ImportReceive("r1", payload)
    \/ ImportRead("r1")
    \/ ImportReadFail("r1")
    \/ ImportWriteOpen("r1")
    \/ ImportWriteDone("r1")
    \/ ImportWriteFail("r1")
    \/ GetConfig
    \/ GetPingOk
    \/ GetPingFail
    \/ GetPingHistory
    \/ GetStats

SpecGet == InitImport /\ [][NextGet]_vars

(***************************************************************************)
(* The claims.                                                             *)
(***************************************************************************)
\* C1: in every reachable state, whatever the interleaving of ticks and
\* appends, the persisted history log holds at most CAP samples.
C1_AtMostCap == Len(hist.samples) <= CAP

\* C1's case: a tick has read a full log, dropped the oldest sample and is
\* about to write CAP samples.
C1_Witness ==
    /\ hist.ok /\ Len(hist.samples) = CAP
    /\ \E t \in InFlight :
          t.pc = "write" /\ t.data = Append(Tail(hist.samples), t.sample)

\* C2: after a sequence of appends, one after the other, from an empty log,
\* the persisted log holds the most recently appended samples, CAP of them
\* when there were more, in the order of the appends.
C2_KeepsMostRecent ==
    (serial /\ hist.ok /\ \A t \in InFlight : ~InAppend(t))
        => hist.samples = LastN(applied, CAP)

\* C2's case: more than CAP appends have completed, none overlapping.
C2_Witness ==
    /\ serial /\ hist.ok /\ \A t \in InFlight : ~InAppend(t)
    /\ Len(applied) > CAP

\* C3 as claimed: at most one tick's probe and append is in progress at any
\* time.
C3_OneTickAtATime == BagCardinality(ticks) <= 1

\* C4 as claimed: the samples of the persisted log are in non-decreasing
\* order of the time they were built.
C4_TimeOrdered ==
    \A k \in 1..(Len(hist.samples) - 1) :
        hist.samples[k].at <= hist.samples[k + 1].at

\* C5 as claimed: the sample a tick builds when its probe has failed is
\* {takenAt, online: false, playersOnline: 0, playersMax: 0}, and the
\* scheduler keeps running.
C5_FailureSample ==
    \A t \in InFlight :
        t.branch = "catch" =>
            /\ t.sample = [at |-> t.sample.at, online |-> FALSE,
                           playersOnline |-> 0, playersMax |-> 0]
            /\ sched = "Running"

\* C6: with pingIntervalSec <= 0 the scheduler stays idle: no tick ever
\* fires, the history log is never changed, and no error is reported.
C6_DisabledStaysIdle ==
    (cfg.readable /\ cfg.pingIntervalSec <= 0) =>
        /\ sched \in {"Boot", "Idle"}
        /\ ticks = EmptyBag
        /\ hist = Parsable(<<>>)
        /\ intervalMs = 0
        /\ ~warned

\* C6's case: the scheduler was started with pingIntervalSec = 0.
C6_Witness == cfg.readable /\ cfg.pingIntervalSec = 0 /\ sched = "Idle"

\* C7: once running, the scheduler is never stopped by a failure: no error
\* leaves a tick, and whatever has failed, the timer fires again.
C7_NeverStops ==
    /\ [](sched # "Dead")
    /\ (<>(sched = "Running") => []<><<TimerFire>>_vars)

\* C7's case: the timer has fired after an append failed in its write, and
\* the probe of an earlier tick has failed too.
C7_Witness ==
    /\ sched = "Running"
    /\ \E t \in InFlight : t.pc = "probe" /\ t.late
    /\ \E t \in InFlight : t.branch = "catch"

\* The import of request r has been answered with status 200.
Imported(r) == imports[r].pc = "done" /\ imports[r].res.status = 200

\* The fields of what a batch gives for a username: those of a record, none
\* of null.
IncomingFields(v) == IF v.t = "obj" THEN v.obj ELSE NoProps

\* C8 as claimed: after a successful import, the record of every username of
\* the batch is the record it had before (empty if it had none) with every
\* field of the incoming record set to the incoming value, whole, and every
\* other field as it was.
C8_MergedRecord ==
    \A r \in Requests :
        Imported(r) =>
            \A u \in DOMAIN imports[r].entries :
                LET before == imports[r].current.players
                    existing == IF u \in DOMAIN before
                                THEN before[u].obj ELSE NoProps
                    incoming == IncomingFields(imports[r].entries[u])
                IN /\ u \in DOMAIN statsFile.players
                   /\ DOMAIN statsFile.players[u].obj
                          = DOMAIN existing \cup DOMAIN incoming
                   /\ \A f \in DOMAIN incoming :
                          statsFile.players[u].obj[f] = incoming[f]
                   /\ \A f \in DOMAIN existing \ DOMAIN incoming :
                          statsFile.players[u].obj[f] = existing[f]

\* C9: a successful import leaves the record of every username that is not
\* in the batch as it was, removes no username and adds none but the batch's.
C9_OthersUntouched ==
    \A r \in Requests :
        Imported(r) =>
            LET before == imports[r].current.players
                batch == DOMAIN imports[r].entries
            IN /\ statsFile.ok
               /\ DOMAIN before \subseteq DOMAIN statsFile.players
               /\ DOMAIN statsFile.players \subseteq DOMAIN before \cup batch
               /\ \A u \in DOMAIN before \ batch :
                      statsFile.players[u] = before[u]

\* C9's case: an import has changed stats.json and there was a username that
\* its batch does not name.
C9_Witness ==
    /\ Imported("r1")
    /\ DOMAIN imports["r1"].current.players \ DOMAIN imports["r1"].entries # {}
    /\ statsFile.players # imports["r1"].current.players

\* C10: an import of the batch that the import before it has imported, with
\* stats.json as that import left it, yields the same players mapping.
C10_Idempotent ==
    \A r \in Requests :
        (/\ imports[r].pc \in {"write", "writing", "done"}
         /\ imports[r].repeat
         /\ imports[r].current.players = imports[r].first)
            => imports[r].merged.players = imports[r].first

\* C10's case: a batch with a record has been imported twice in a row.
C10_Witness ==
    /\ Imported("r1")
    /\ imports["r1"].repeat
    /\ statsFile.players = imports["r1"].first
    /\ \E u \in DOMAIN imports["r1"].entries :
          "sessions" \in DOMAIN IncomingFields(imports["r1"].entries[u])

\* The payloads the specification lets through: an object whose players field
\* is a mapping (an object that is no array and not null).
ProperBatch(v) == v.t = "obj" /\ Get(v, "players").t = "obj"

\* C11 as claimed: an import of a text that is not JSON is answered with the
\* parse error, and an import of a JSON value without a proper players field
\* with the schema error; each leaves stats.json as it was.
C11_RejectedUnchanged ==
    [][\A p \in Payloads :
          ImportReceive("r1", p) =>
              /\ p.kind = "text" =>
                    /\ imports'["r1"].res =
                           [status |-> 400, error |-> "Invalid JSON"]
                    /\ statsFile' = statsFile
              /\ (p.kind = "json" /\ ~ProperBatch(p.value)) =>
                    /\ imports'["r1"].res =
                           [status |-> 400, error |-> "Invalid schema"]
                    /\ statsFile' = statsFile]_vars

\* C12 as claimed: a parsed payload goes on to the merge if and only if it
\* is an object whose players field is a mapping; a null, a scalar or an
\* array at the root, players missing, players a scalar and players an array
\* are answered with the schema error.
C12_ValidationIff ==
    [][\A p \in Payloads :
          (ImportReceive("r1", p) /\ p.kind = "json") =>
              IF ProperBatch(p.value)
              THEN imports'["r1"].pc = "read"
              ELSE /\ imports'["r1"].pc = "done"
                   /\ imports'["r1"].res.status = 400]_vars

\* What stats.json holds after the import of entries a and then of entries
\* b, one after the other, into the aggregate ensureDataFiles wrote.
InTurn(a, b) == Merged(Merged(NoAggregate, a, 0), b, 0).players

\* C13 as claimed: when two imports that ran at once have both succeeded,
\* stats.json holds the merge of the one and then of the other, in one of
\* the two orders: neither import's records are lost.
C13_ImportsSerialized ==
    (Imported("r1") /\ Imported("r2")) =>
        /\ statsFile.ok
        /\ statsFile.players \in
              {InTurn(imports["r1"].entries, imports["r2"].entries),
               InTurn(imports["r2"].entries, imports["r1"].entries)}

\* C14 as claimed: a GET of the history log or of the stats aggregate, at any
\* point of an append or of a merge, is answered from a whole file: it never
\* finds a text that JSON.parse rejects.
C14_ReadsSeeWholeFile ==
    (got.status = 500 /\ got.endpoint \in {"ping-history", "stats"})
        => got.details # "SyntaxError"

\* A request of one of the GET endpoints is answered.
GetStep == GetConfig \/ GetPingOk \/ GetPingFail \/ GetPingHistory \/ GetStats

\* C20: the GET endpoints change none of config.json, ping-history.json and
\* stats.json, an on-demand probe appends no sample, and the failure of an
\* on-demand probe is answered as a result with online: false.
C20_ReadOnly ==
    [][/\ GetStep => (cfg' = cfg /\ hist' = hist /\ statsFile' = statsFile)
       /\ GetPingFail => (got'.status = 200 /\ got'.online = FALSE)]_vars

\* C20's case: an on-demand probe has failed, after an import has written
\* stats.json.
C20_Witness ==
    /\ got.status = 200 /\ got.endpoint = "ping" /\ ~got.online
    /\ Imported("r1") /\ statsFile.ok /\ DOMAIN statsFile.players # {}

\* C15 as claimed: an append whose write fails leaves the history log as it
\* was before the append.  For appends that run one after the other: unless
\* a write is under way, the log is whole and holds the samples of the
\* appends that completed, and nothing of one that failed.
C15_FailedWriteKeepsLog ==
    (serial /\ \A t \in InFlight : t.pc # "writing") =>
        /\ hist.ok
        /\ hist.samples = LastN(applied, CAP)

\* C17 as claimed: a successful import answers with the number of usernames
\* of the merged aggregate, the usernames it read and those of the batch,
\* each counted once, and with the updatedAt it has persisted.
C17_ImportResponse ==
    Imported("r1") =>
        /\ imports["r1"].res.totalPlayers =
              Cardinality(DOMAIN imports["r1"].current.players
                              \cup DOMAIN imports["r1"].entries)
        /\ statsFile.ok
        /\ imports["r1"].res.updatedAt = statsFile.updatedAt
        /\ imports["r1"].res.totalPlayers =
              Cardinality(DOMAIN statsFile.players)

\* The ticks of SpecSlowProbes are all over: each has appended its sample.
AllTicksOver == sched = "Running" /\ now > 0 /\ ticks = EmptyBag

\* C16 as claimed: starting from an empty log, after k ticks whose probes
\* succeeded the log holds exactly k samples, the i-th of them online with
\* the players.online and players.max of the i-th tick's probe.
C16_OneSamplePerTick ==
    AllTicksOver =>
        /\ hist.ok
        /\ Len(hist.samples) = MaxInFlight
        /\ \A i \in 1..Len(hist.samples) :
              /\ hist.samples[i].online
              /\ hist.samples[i].playersOnline = TickResult(i - 1).players.online
              /\ hist.samples[i].playersMax = TickResult(i - 1).players.max

\* C18 as claimed: a sample whose append completed stays in the log while
\* fewer than CAP newer samples were logged.  With slow probes every append
\* completes and no more than CAP samples are appended: when the ticks are
\* over the log holds the sample of each of them.
C18_CompletedSampleStays ==
    AllTicksOver =>
        /\ hist.ok
        /\ \A n \in 0..(MaxInFlight - 1) :
              \E i \in 1..Len(hist.samples) :
                  hist.samples[i].playersOnline = TickResult(n).players.online

\* The samples of a sequence are all online samples.
AllOnline(samples) == \A i \in 1..Len(samples) : samples[i].online

\* C19: a tick whose probe succeeded calls the append once, with its online
\* sample, and never records an online:false sample, even when its append
\* fails.  With a game server that answers every probe: no tick is ever in
\* its failure branch, none holds an online:false sample or a log to write
\* with one in it, and the persisted log holds none.
C19_NoOfflineAfterSuccess ==
    /\ \A t \in InFlight :
          /\ t.branch # "catch"
          /\ t.sample # NoSample => t.sample.online
          /\ AllOnline(t.data)
    /\ AllOnline(hist.samples)

\* The append of a tick has failed in its write, after a sample was logged,
\* and the ticks are over.
C19_Witness ==
    /\ sched = "Running"
    /\ AppendHasFailed
    /\ applied # <<>>
    /\ ticks = EmptyBag

====
